---- MODULE Spec2Model ----
(***************************************************************************)
(* A model of the poly-market-maker reconciliation engine:                 *)
(*   - the AMM pricing engine (strategies/amm.py),                         *)
(*   - the reconciliation tick (strategy.py, StrategyManager.synchronize), *)
(*   - the handlers the App wires into the order book cache (app.py) and   *)
(*     the venue calls behind them (clob_api.py).                          *)
(*                                                                         *)
(* Units.  Prices are integers in mills (0.001), so a tick of 0.01 is 10   *)
(* and a half-tick mid-price is representable.  Sizes and balances are     *)
(* integers in cents (0.01).  Python floats are modelled in fixed point:   *)
(* square roots and their reciprocals at a scale of 10^4, phi at a scale   *)
(* of 10^3.  A value that the code rounds is carried as a rational         *)
(* (numerator, denominator) up to the rounding.  round() on a tie goes up  *)
(* or down depending on the binary value of the float (round(0.395, 2) is   *)
(* 0.4, round(0.495, 2) is 0.49), so the tie direction is an input (up)    *)
(* chosen by the caller, separately for each token's buy and sell prices.  *)
(***************************************************************************)
EXTENDS Integers, Sequences, FiniteSets, TLC

(***************************************************************************)
(* Bounds of the model.                                                    *)
(***************************************************************************)
\* the ladder loop of set_buy_prices is unrolled at most this many times
MaxLevels == 8
\* reconciliation ticks in one run
MaxTicks == 1
\* background refreshes in one run
MaxRefresh == 2
\* the venue holds at most this many live copies of one order identity
MaxDup == 1

Tokens == {"A", "B"}

Min(a, b) == IF a <= b THEN a ELSE b
Max(a, b) == IF a >= b THEN a ELSE b

\* F applied to the value of x, with x evaluated once
Eval(x, F(_)) == CHOOSE r \in {F(v) : v \in {x}} : TRUE

SeqToSet(s) == {s[i] : i \in 1..Len(s)}

RECURSIVE Filter(_, _)
\* the elements of s that are in the set keep, in order
Filter(s, keep) ==
    IF s = <<>> THEN <<>>
    ELSE IF Head(s) \in keep THEN <<Head(s)>> \o Filter(Tail(s), keep)
    ELSE Filter(Tail(s), keep)

(***************************************************************************)
(* Numbers.                                                                *)
(***************************************************************************)
\* a spread is a distance in mills or float("inf")
Inf == [inf |-> TRUE, v |-> 0]
Fin(v) == [inf |-> FALSE, v |-> v]

\* round(x, count_decimal_places(min_tick)): x in mills to the grid g
RoundGrid(x, g, up) ==
    LET r == x % g
        lo == x - r
    IN  IF 2 * r < g THEN lo
        ELSE IF 2 * r > g THEN lo + g
        ELSE IF up THEN lo + g ELSE lo

\* count_decimal_places(min_tick) as the grid it implies, in mills
GridOf(min_tick) ==
    IF min_tick >= 1000 THEN 1000
    ELSE IF min_tick >= 100 THEN 100
    ELSE IF min_tick >= 10 THEN 10
    ELSE 1

RECURSIVE ISqrtIn(_, _, _)
\* the largest r in lo..hi with r * r <= n
ISqrtIn(n, lo, hi) ==
    IF lo >= hi THEN lo
    ELSE LET mid == (lo + hi + 1) \div 2
         IN  IF mid * mid <= n THEN ISqrtIn(n, mid, hi)
             ELSE ISqrtIn(n, lo, mid - 1)

\* math.sqrt over the prices 0.000 .. 1.000, at scale 10^4
SqrtTable == [p \in 0..1000 |-> ISqrtIn(p * 100000, 0, 10000)]
\* sqrt(p) for a price p in mills, at scale 10^4
Sqrt(p) == SqrtTable[p]
\* 1 / sqrt(p) for a price p in mills, at scale 10^4
InvSqrt(p) == 100000000 \div Sqrt(p)

\* math_round_down(n / d, 2) in cents, for d > 0
MathRoundDown(n, d) == n \div d

(***************************************************************************)
(* AMMConfig and AMM (strategies/amm.py).                                  *)
(***************************************************************************)
\* AMMConfig values: prices in mills, amounts in cents
WideConfig ==
    [p_min |-> 50, p_max |-> 950, spread |-> 10, delta |-> 10, depth |-> 30,
     max_collateral |-> 2000, min_tick |-> 10, min_size |-> 500]
NarrowConfig ==
    [p_min |-> 300, p_max |-> 600, spread |-> 20, delta |-> 20, depth |-> 50,
     max_collateral |-> 1000, min_tick |-> 10, min_size |-> 0]
Configs == {WideConfig, NarrowConfig}

\* AMM.__init__: the fields of a fresh AMM (prices not yet set)
AMMInit(cfg) ==
    [spread |-> Fin(cfg.spread), p_i |-> 0, p_u |-> 0, p_l |-> 0,
     buy_prices |-> <<>>, sell_prices |-> <<>>]

\* AMM.update_spread
UpdateSpread(amm, spread) == [amm EXCEPT !.spread = spread]

RECURSIVE LadderFrom(_, _, _, _, _, _)
\* the while loop of set_buy_prices
\* (ups[k]: the tie direction of the rounding made with k levels to go)
LadderFrom(price, p_l, delta, g, ups, fuel) ==
    IF price < p_l \/ fuel = 0 THEN <<>>
    ELSE <<price>> \o LadderFrom(RoundGrid(price - delta, g, ups[fuel]), p_l, delta, g,
                                  ups, fuel - 1)

\* every rounding of the loop breaks a tie the same way
StepTies(up) == [k \in 1..MaxLevels |-> up]

\* the first price of the ladder: round(p_i - spread, decimals)
\* (FirstBuyPriceBad: a faulty start at the reference price itself)
FirstBuyPriceBad(cfg, amm, p_i, up) ==
    RoundGrid(p_i, GridOf(cfg.min_tick), up)
FirstBuyPrice(cfg, amm, p_i, up) ==
    RoundGrid(p_i - amm.spread.v, GridOf(cfg.min_tick), up)

\* AMM.set_buy_prices
SetBuyPrices(cfg, amm, p_i, up, ups) ==
    LET g == GridOf(cfg.min_tick)
        p_u == RoundGrid(Min(p_i + cfg.depth, cfg.p_max) - cfg.min_tick \div 10, g, up)
        p_l == RoundGrid(Max(p_i - cfg.depth, cfg.p_min) + cfg.min_tick \div 10, g, up)
    IN  [amm EXCEPT !.p_i = p_i, !.p_u = p_u, !.p_l = p_l,
                    !.buy_prices =
                        IF amm.spread.inf THEN <<>>
                        ELSE LadderFrom(FirstBuyPrice(cfg, amm, p_i, up), p_l,
                                        cfg.delta, g, ups, MaxLevels)]

\* AMM.set_sell_prices
SetSellPrices(cfg, amm, best_ask, up) ==
    [amm EXCEPT !.sell_prices = <<RoundGrid(best_ask, GridOf(cfg.min_tick), up)>>]

Order(side, token, price, size) ==
    [side |-> side, token |-> token, price |-> price, size |-> size]

\* the size filter of the order comprehensions
\* (SizeOkBad: a faulty filter that ignores min_size)
SizeOkBad(cfg, size) == size >= 0
SizeOk(cfg, size) == size >= cfg.min_size

\* AMM.get_sell_orders
GetSellOrders(cfg, amm, token, balance_of_token) ==
    IF Len(amm.sell_prices) = 0 THEN <<>>
    ELSE IF SizeOk(cfg, balance_of_token)
         THEN <<Order("SELL", token, amm.sell_prices[1], balance_of_token)>>
         ELSE <<>>

\* AMM._buy_size as a rational: numerator and denominator
BuySizeNum(y, p_i, p_t) == y * (InvSqrt(p_t) - InvSqrt(p_i))
BuySizeDen(p_i, p_l) == Sqrt(p_i) - Sqrt(p_l)

\* AMM.diff
Diff(arr) == [i \in 1..Len(arr) |-> IF i = 1 THEN arr[i] ELSE arr[i] - arr[i - 1]]

RECURSIVE BuyOrdersFrom(_, _, _, _, _, _)
\* the order comprehension of get_buy_orders over zip(buy_prices, sizes)
BuyOrdersFrom(cfg, token, prices, nums, den, i) ==
    IF i > Len(prices) THEN <<>>
    ELSE LET size == MathRoundDown(nums[i], den)
         IN  (IF SizeOk(cfg, size) THEN <<Order("BUY", token, prices[i], size)>> ELSE <<>>)
             \o BuyOrdersFrom(cfg, token, prices, nums, den, i + 1)

\* AMM.get_buy_orders
GetBuyOrders(cfg, amm, token, balance_of_usdc) ==
    IF Len(amm.buy_prices) = 0 THEN <<>>
    ELSE LET sizes_before_diff ==
                 [i \in 1..Len(amm.buy_prices) |->
                     BuySizeNum(balance_of_usdc, amm.p_i, amm.buy_prices[i])]
         IN  BuyOrdersFrom(cfg, token, amm.buy_prices, Diff(sizes_before_diff),
                           BuySizeDen(amm.p_i, amm.p_l), 1)

\* AMM.phi at scale 10^3
Phi(amm) ==
    IF Len(amm.buy_prices) = 0 THEN 0
    ELSE ((InvSqrt(amm.buy_prices[1]) - InvSqrt(amm.p_i)) * 1000)
             \div (Sqrt(amm.p_i) - Sqrt(amm.p_l))

\* phi() divides by sqrt(p_i) - sqrt(p_l): ZeroDivisionError when they are equal
PhiRaises(amm) ==
    Len(amm.buy_prices) > 0 /\ Sqrt(amm.p_i) = Sqrt(amm.p_l)

(***************************************************************************)
(* AMMManager (strategies/amm.py).                                         *)
(***************************************************************************)
\* the clamp of collateral_allocation_a into [0, collateral_balance], on the
\* numerator n of n / d
\* (ClampAllocBad: a faulty clamp without the lower bound)
ClampAllocBad(n, d, collateral_balance) ==
    IF n > collateral_balance * d THEN collateral_balance * d ELSE n
ClampAlloc(n, d, collateral_balance) ==
    IF n < 0 THEN 0
    ELSE IF n > collateral_balance * d THEN collateral_balance * d
    ELSE n

\* AMMManager.collateral_allocation
CollateralAllocation(amms, collateral_balance, best_sell_order_size_a, best_sell_order_size_b) ==
    IF PhiRaises(amms["A"]) \/ PhiRaises(amms["B"])
    THEN [raised |-> TRUE, a |-> 0, b |-> 0]
    ELSE LET a_phi == Phi(amms["A"])
             b_phi == Phi(amms["B"])
         IN  IF a_phi = 0 /\ b_phi = 0
             THEN [raised |-> FALSE, a |-> 0, b |-> 0]
             ELSE LET d == a_phi + b_phi
                      n == ClampAlloc((best_sell_order_size_a - best_sell_order_size_b) * 1000
                                          + collateral_balance * b_phi,
                                      d, collateral_balance)
                  IN  [raised |-> FALSE,
                       a |-> MathRoundDown(n, d),
                       b |-> MathRoundDown(collateral_balance * d - n, d)]

\* the fields of both AMMs after the update_spread / set_*_prices calls of
\* get_expected_orders
AmmsAfterPrices(cfg, amms, target_prices, my_order_spread_token_A, my_order_spread_token_B, up) ==
    LET after(t, spread) ==
            SetSellPrices(cfg,
                SetBuyPrices(cfg, UpdateSpread(amms[t], spread), target_prices[t], up[t].buy,
                             StepTies(up[t].buy)),
                target_prices[t], up[t].sell)
    IN  [A |-> after("A", my_order_spread_token_A),
         B |-> after("B", my_order_spread_token_B)]

\* the suppression test of get_expected_orders
SuppressBuys(target_prices, buy_orders_a, buy_orders_b) ==
    /\ target_prices["A"] < 100 \/ target_prices["A"] > 900
    /\ Len(buy_orders_a) = 0 \/ Len(buy_orders_b) = 0

\* get_expected_orders up to its call of collateral_allocation: the sell
\* orders, the best sell sizes, the capped collateral and the allocation
AllocationFor(cfg, amms, balances) ==
    LET sell_orders_a == GetSellOrders(cfg, amms["A"], "A", balances["A"])
        sell_orders_b == GetSellOrders(cfg, amms["B"], "B", balances["B"])
        best_sell_order_size_a == IF Len(sell_orders_a) > 0 THEN sell_orders_a[1].size ELSE 0
        best_sell_order_size_b == IF Len(sell_orders_b) > 0 THEN sell_orders_b[1].size ELSE 0
        total_collateral_allocation == Min(balances["Collateral"], cfg.max_collateral)
    IN  CollateralAllocation(amms, total_collateral_allocation,
                             best_sell_order_size_a, best_sell_order_size_b)

\* AMMManager.get_expected_orders: what it returns (or that it raised)
GetExpectedOrders(cfg, amms, target_prices, balances, my_order_spread_token_A, my_order_spread_token_B, up) ==
    LET orders(after, alloc) ==
            LET sell_orders_a == GetSellOrders(cfg, after["A"], "A", balances["A"])
                sell_orders_b == GetSellOrders(cfg, after["B"], "B", balances["B"])
                buy_orders_a == GetBuyOrders(cfg, after["A"], "A", alloc.a)
                buy_orders_b == GetBuyOrders(cfg, after["B"], "B", alloc.b)
            IN  IF alloc.raised THEN [raised |-> TRUE, orders |-> <<>>]
                ELSE [raised |-> FALSE,
                      orders |->
                          IF SuppressBuys(target_prices, buy_orders_a, buy_orders_b)
                          THEN sell_orders_a \o sell_orders_b
                          ELSE sell_orders_a \o sell_orders_b \o buy_orders_a \o buy_orders_b]
    IN  Eval(AmmsAfterPrices(cfg, amms, target_prices, my_order_spread_token_A,
                             my_order_spread_token_B, up),
             LAMBDA after :
                 Eval(AllocationFor(cfg, after, balances),
                      LAMBDA alloc : orders(after, alloc)))

(***************************************************************************)
(* ClobApi (clob_api.py): the venue calls.                                 *)
(***************************************************************************)
RECURSIVE InsertLevel(_, _, _)
\* insert level x into the sorted list s; desc: descending by price
InsertLevel(x, s, desc) ==
    IF s = <<>> THEN <<x>>
    ELSE IF (desc /\ x.price > Head(s).price) \/ (~desc /\ x.price < Head(s).price)
         THEN <<x>> \o s
         ELSE <<Head(s)>> \o InsertLevel(x, Tail(s), desc)

RECURSIVE SortLevels(_, _)
\* sorted(levels, key=price, reverse=desc); stable
SortLevels(s, desc) ==
    IF s = <<>> THEN <<>>
    ELSE InsertLevel(s[Len(s)], SortLevels(SubSeq(s, 1, Len(s) - 1), desc), desc)

\* ClobApi.get_order_book: resp is the venue's answer (failed: the request
\* raised; a side that is None on the response has no key in the result)
ClobGetOrderBook(resp) ==
    IF resp.failed
    THEN [none |-> FALSE, has_bids |-> TRUE, bids |-> <<>>, has_asks |-> TRUE, asks |-> <<>>]
    ELSE [none |-> FALSE,
          has_bids |-> ~resp.bids_none, bids |-> SortLevels(resp.bids, TRUE),
          has_asks |-> ~resp.asks_none, asks |-> SortLevels(resp.asks, FALSE)]

\* ClobApi.get_orders: the open orders, or [] when the request raised
ClobGetOrders(venue_orders, failed) ==
    IF failed THEN {} ELSE venue_orders

\* ClobApi.cancel_order: ok is whether the venue answers OK; a request that
\* raises is caught and answers False
\* (ClobCancelOrderBad: a faulty cancel_order that lets the failure raise)
ClobCancelOrderBad(venue_orders, order_id, ok) ==
    IF ok /\ \E o \in venue_orders : o.id = order_id
    THEN [raised |-> FALSE, result |-> TRUE,
          venue |-> {o \in venue_orders : o.id # order_id}]
    ELSE [raised |-> TRUE, result |-> FALSE, venue |-> venue_orders]
ClobCancelOrder(venue_orders, order_id, ok) ==
    IF ok /\ \E o \in venue_orders : o.id = order_id
    THEN [raised |-> FALSE, result |-> TRUE,
          venue |-> {o \in venue_orders : o.id # order_id}]
    ELSE [raised |-> FALSE, result |-> FALSE, venue |-> venue_orders]

\* ClobApi.place_order: the order id of an accepted order (new_id), or None
\* (id 0) when the venue rejects or the request raises
\* (ClobPlaceOrderBad: a faulty place_order that answers an id on rejection)
ClobPlaceOrderBad(venue_orders, order, new_id, ok) ==
    [raised |-> FALSE, id |-> new_id,
     venue |-> IF ok
               THEN venue_orders \cup
                      {[id |-> new_id, side |-> order.side, token |-> order.token,
                        price |-> order.price, size |-> order.size]}
               ELSE venue_orders]
ClobPlaceOrder(venue_orders, order, new_id, ok) ==
    IF ok
    THEN [raised |-> FALSE, id |-> new_id,
          venue |-> venue_orders \cup
                      {[id |-> new_id, side |-> order.side, token |-> order.token,
                        price |-> order.price, size |-> order.size]}]
    ELSE [raised |-> FALSE, id |-> 0, venue |-> venue_orders]

(***************************************************************************)
(* StrategyManager (strategy.py).                                          *)
(***************************************************************************)
\* the tests of StrategyManager.get_order_book: a None balance, or a sum of 0
\* (BalancesInvalidBad: a faulty test that lets all-zero balances through)
BalancesInvalidBad(snapshot) == snapshot.none # {}
BalancesInvalid(snapshot) ==
    \/ snapshot.none # {}
    \/ snapshot.balances["Collateral"] + snapshot.balances["A"] + snapshot.balances["B"] = 0

RECURSIVE SpreadFrom(_, _, _, _, _)
\* the loop of get_spread_where_order_value_exceeds_max_collateral from
\* level i on, with the running sum so far (price * size in mills * cents)
SpreadFrom(orders, midpoint, max_collateral, i, total) ==
    IF i > Len(orders) THEN Inf
    ELSE LET sum == total + orders[i].price * orders[i].size
         IN  IF sum > max_collateral * 1000
             THEN Fin(IF midpoint >= orders[i].price THEN midpoint - orders[i].price
                      ELSE orders[i].price - midpoint)
             ELSE SpreadFrom(orders, midpoint, max_collateral, i + 1, sum)

\* StrategyManager.get_spread_where_order_value_exceeds_max_collateral
\* (GetSpreadBad: a faulty walk that starts at the second level)
GetSpreadBad(orders, midpoint, max_collateral) ==
    SpreadFrom(orders, midpoint, max_collateral, 2, 0)
GetSpreadWhereOrderValueExceedsMaxCollateral(orders, midpoint, max_collateral) ==
    SpreadFrom(orders, midpoint, max_collateral, 1, 0)

\* the identity of an order: side, token, price and size
Ident(o) == Order(o.side, o.token, o.price, o.size)

RECURSIVE SetToSeq(_)
\* the orders of a snapshot as a list, by ascending id
SetToSeq(S) ==
    IF S = {} THEN <<>>
    ELSE LET m == CHOOSE x \in S : \A y \in S : x.id <= y.id
         IN  <<m>> \o SetToSeq(S \ {m})

\* the diff of the strategy's get_orders: live orders matching no expected
\* order are cancelled, expected orders matching no live order are placed
OrdersToCancel(live_orders, expected_orders) ==
    SetToSeq({o \in live_orders : Ident(o) \notin SeqToSet(expected_orders)})
OrdersToPlace(live_orders, expected_orders) ==
    Filter(expected_orders, SeqToSet(expected_orders) \ {Ident(o) : o \in live_orders})

\* StrategyManager.cancel_orders / place_orders: the list handed on to the
\* order book manager
\* (CancelOrdersBad: a faulty cancel_orders that drops a single cancellation)
CancelOrdersBad(orders_to_cancel) ==
    IF Len(orders_to_cancel) > 1 THEN orders_to_cancel ELSE <<>>
CancelOrders(orders_to_cancel) ==
    IF Len(orders_to_cancel) > 0 THEN orders_to_cancel ELSE <<>>
PlaceOrders(orders_to_place) ==
    IF Len(orders_to_place) > 0 THEN orders_to_place ELSE <<>>

\* synchronize executes cancel_orders(...) and then place_orders(...): the
\* kind of the next venue call of the tick, "idle" when none is left
NextPhase(cancel, place) ==
    IF cancel # <<>> THEN "cancel" ELSE IF place # <<>> THEN "place" ELSE "idle"

\* StrategyManager.synchronize up to the venue calls: how the tick goes on
\* (skipped: the early return; raised: an exception leaves synchronize;
\* diff: orders_to_cancel and orders_to_place are computed)
Synchronize(cfg, amms, snapshot, book, up) ==
    LET stop(result) ==
            [result |-> result, amm |-> amms, expected |-> <<>>,
             cancel |-> <<>>, place |-> <<>>]
    IN  IF BalancesInvalid(snapshot) THEN stop("skipped")
        \* token_market_order_book is None: the spreads are never bound
        ELSE IF book.none THEN stop("raised")
        \* token_market_order_book['bids'] / ['asks']: KeyError
        ELSE IF ~book.has_bids \/ ~book.has_asks THEN stop("raised")
        \* an empty side: the spreads are never bound
        ELSE IF Len(book.bids) = 0 \/ Len(book.asks) = 0 THEN stop("raised")
        ELSE LET midpoint == (book.bids[1].price + book.asks[1].price) \div 2
                 bid_spread == GetSpreadWhereOrderValueExceedsMaxCollateral(
                                   book.bids, midpoint, cfg.max_collateral)
                 ask_spread == GetSpreadWhereOrderValueExceedsMaxCollateral(
                                   book.asks, midpoint, cfg.max_collateral)
                 token_prices == [A |-> midpoint, B |-> 1000 - midpoint]
                 after == AmmsAfterPrices(cfg, amms, token_prices, bid_spread, ask_spread, up)
                 diff(r) ==
                     IF r.raised THEN [stop("raised") EXCEPT !.amm = after]
                     ELSE [result |-> "diff", amm |-> after, expected |-> r.orders,
                           cancel |-> CancelOrders(OrdersToCancel(snapshot.orders, r.orders)),
                           place |-> PlaceOrders(OrdersToPlace(snapshot.orders, r.orders))]
             IN  Eval(GetExpectedOrders(cfg, amms, token_prices, snapshot.balances,
                                        bid_spread, ask_spread, up), diff)

\* the tie directions open to a tick with this book: a direction is chosen
\* only where the value rounded is a tie
BookTies(book, cfg) ==
    IF book.none \/ ~book.has_bids \/ ~book.has_asks
          \/ Len(book.bids) = 0 \/ Len(book.asks) = 0
    THEN {[t \in Tokens |-> [buy |-> FALSE, sell |-> FALSE]]}
    ELSE LET midpoint == (book.bids[1].price + book.asks[1].price) \div 2
             bid_spread == GetSpreadWhereOrderValueExceedsMaxCollateral(
                               book.bids, midpoint, cfg.max_collateral)
             ask_spread == GetSpreadWhereOrderValueExceedsMaxCollateral(
                               book.asks, midpoint, cfg.max_collateral)
             choice(tie) == IF tie THEN BOOLEAN ELSE {FALSE}
             buy(p, spread) == choice(~spread.inf /\ (p - spread.v) % 10 = 5)
             sell(p) == choice(p % 10 = 5)
         IN  { [A |-> [buy |-> ba, sell |-> sa], B |-> [buy |-> bb, sell |-> sb]] :
                 ba \in buy(midpoint, bid_spread), sa \in sell(midpoint),
                 bb \in buy(1000 - midpoint, ask_spread), sb \in sell(1000 - midpoint) }

(***************************************************************************)
(* The order book cache (OrderBookManager) and the App's handlers.         *)
(***************************************************************************)
\* the snapshot before the first refresh: no orders, no balances
EmptySnapshot ==
    [orders |-> {}, balances |-> [Collateral |-> 0, A |-> 0, B |-> 0],
     none |-> {"Collateral", "A", "B"}, oref |-> 0, bref |-> 0]

\* refresh, on success: the stored snapshot is replaced as a whole by the
\* orders and balances fetched in refresh number n
\* (StoreSnapshotBad: a faulty store that replaces the orders only)
StoreSnapshotBad(old, orders, balances, n) ==
    [orders |-> orders, balances |-> old.balances, none |-> old.none,
     oref |-> n, bref |-> old.bref]
StoreSnapshot(old, orders, balances, n) ==
    [orders |-> orders, balances |-> balances, none |-> {}, oref |-> n, bref |-> n]

(***************************************************************************)
(* State.                                                                  *)
(***************************************************************************)
VARIABLES
    config,     \* the AMMConfig the AMMManager was constructed from
    amm,        \* AMMManager.amm_a / amm_b: the fields of the two AMM objects
    args,       \* the arguments the pricing calls are made with
    ret,        \* the last call made on the AMMManager and what it returned
    market,     \* what the venue may answer: balances and competitor books
    healthy,    \* the venue answers every request successfully
    venue,      \* the keeper's open orders at the venue
    cache,      \* the order book manager's stored snapshot
    refresher,  \* the background refresh worker
    tick,       \* the reconciliation tick (StrategyManager.synchronize)
    calls,      \* the cancel / place calls of the current or last tick
    budget,     \* ticks and refreshes started so far
    app         \* the process: ClobApi construction, the App and its shutdown

amm_vars == <<config, amm, args, ret>>
sys_vars == <<market, healthy, venue, cache, refresher, tick, calls, budget, app>>
vars == <<config, amm, args, ret, market, healthy, venue, cache, refresher, tick, calls, budget, app>>

IdleRefresher == [pc |-> "idle", orders |-> {}, failed |-> FALSE]

\* the App after App.__init__: ClobApi built with both connectivity checks
\* answered OK, the order book manager started, no shutdown yet
RunningApp ==
    [stage |-> "running", client |-> "L2", L1 |-> "OK", L2 |-> "OK",
     worker |-> TRUE, cancel_alls |-> 0]
IdleTick ==
    [pc |-> "idle", bit |-> 0, result |-> "none", book |-> EmptySnapshot,
     expected |-> <<>>, cancel |-> <<>>, place |-> <<>>, rejected |-> {}]
NoBudget == [ticks |-> 0, refreshes |-> 0]

(***************************************************************************)
(* The AMMManager driven directly: the pricing calls on drawn arguments.   *)
(***************************************************************************)
\* reference prices of Token A in mills (Token B is priced at 1000 - p)
RefPrices == {30, 50, 100, 395, 400, 605, 900, 950}
\* derived spreads handed to get_expected_orders
Spreads == {Fin(5), Fin(10), Inf}
\* balance snapshots in cents
PricingBalances ==
    { [Collateral |-> c, A |-> a, B |-> b] :
        c \in {0, 700, 2000, 5000}, a \in {0, 300, 600, 1500}, b \in {0, 600, 1500} }

\* Token B is priced at 1 - p
TargetPrices(p) == [A |-> p, B |-> 1000 - p]

\* the direction of each rounding tie of one get_expected_orders call
TieChoices == [Tokens -> [buy : BOOLEAN, sell : BOOLEAN]]

\* a tie direction is chosen only where the value rounded is a tie
TieMatters(target_prices, sa, sb, up) ==
    \A t \in Tokens :
        LET spread == IF t = "A" THEN sa ELSE sb
        IN  /\ up[t].sell => target_prices[t] % 10 = 5
            /\ up[t].buy => (~spread.inf /\ (target_prices[t] - spread.v) % 10 = 5)

NoArgs ==
    [p |-> 0, bal |-> [Collateral |-> 0, A |-> 0, B |-> 0], sa |-> Inf, sb |-> Inf,
     up |-> [t \in Tokens |-> [buy |-> FALSE, sell |-> FALSE]]]

NoRet == [op |-> "none", raised |-> FALSE, a |-> 0, b |-> 0, orders |-> <<>>]

\* AMMManager.__init__, and the arguments of the calls to come
InitAMM ==
    /\ config \in Configs
    /\ amm = [t \in Tokens |-> AMMInit(config)]
    /\ args \in [p : RefPrices, bal : PricingBalances, sa : Spreads, sb : Spreads,
                  up : TieChoices]
    /\ TieMatters(TargetPrices(args.p), args.sa, args.sb, args.up)
    /\ ret = NoRet
    /\ market = [balances |-> {}, books |-> {}]
    /\ healthy = FALSE
    /\ venue = {}
    /\ cache = EmptySnapshot
    /\ refresher = IdleRefresher
    /\ tick = IdleTick
    /\ calls = <<>>
    /\ budget = NoBudget
    /\ app = RunningApp


\* a call of AMMManager.get_expected_orders
GetExpectedOrdersCall ==
    /\ ret.op = "none"
    /\ LET r == GetExpectedOrders(config, amm, TargetPrices(args.p), args.bal,
                                  args.sa, args.sb, args.up)
       IN  /\ amm' = AmmsAfterPrices(config, amm, TargetPrices(args.p), args.sa, args.sb, args.up)
           /\ ret' = [NoRet EXCEPT !.op = "get_expected_orders", !.raised = r.raised,
                                   !.orders = r.orders]
    /\ UNCHANGED <<config, args>>
    /\ UNCHANGED sys_vars

\* the call of AMMManager.collateral_allocation that get_expected_orders
\* makes, on the ladders last set
CollateralAllocationCall ==
    /\ ret.op = "get_expected_orders"
    /\ LET r == AllocationFor(config, amm, args.bal)
       IN  ret' = [NoRet EXCEPT !.op = "collateral_allocation", !.raised = r.raised,
                               !.a = r.a, !.b = r.b]
    /\ UNCHANGED <<config, amm, args>>
    /\ UNCHANGED sys_vars

NextAMM == GetExpectedOrdersCall \/ CollateralAllocationCall

SpecAMM == InitAMM /\ [][NextAMM]_vars

(***************************************************************************)
(* The running keeper: the background refresh worker, the reconciliation   *)
(* tick and the venue.                                                     *)
(***************************************************************************)
Level(price, size) == [price |-> price, size |-> size]

\* an answer of the venue to get_order_book (feed_none: the price feed hands
\* None to the strategy manager)
BookResp(feed_none, failed, bids_none, asks_none, bids, asks) ==
    [feed_none |-> feed_none, failed |-> failed, bids_none |-> bids_none,
     asks_none |-> asks_none, bids |-> bids, asks |-> asks]

\* a thick book: the best level of each side alone exceeds max_collateral
ThickBook ==
    BookResp(FALSE, FALSE, FALSE, FALSE, <<Level(390, 6000)>>, <<Level(400, 6000)>>)
\* a thin bid side, and an ask side that is answered unsorted
ThinBook ==
    BookResp(FALSE, FALSE, FALSE, FALSE,
             <<Level(370, 1000), Level(380, 1000)>>,
             <<Level(410, 6000), Level(400, 1000)>>)
BookResponses ==
    { ThickBook, ThinBook,
      BookResp(FALSE, TRUE, FALSE, FALSE, <<>>, <<>>),
      BookResp(FALSE, FALSE, TRUE, FALSE, <<>>, <<Level(400, 6000)>>),
      BookResp(FALSE, FALSE, FALSE, FALSE, <<Level(390, 6000)>>, <<>>),
      BookResp(TRUE, FALSE, FALSE, FALSE, <<>>, <<>>) }

\* balances the venue may answer, in cents
VenueBalances ==
    { [Collateral |-> 0, A |-> 0, B |-> 0],
      [Collateral |-> 0, A |-> 600, B |-> 600],
      [Collateral |-> 1200, A |-> 0, B |-> 0] }

\* open orders the keeper may find at the venue when it starts
SeedOrder == [id |-> 1, side |-> "BUY", token |-> "A", price |-> 400, size |-> 1000]
\* a BUY of Token A one tick above a price the thick book makes the keeper
\* quote, with the same size
SeedNear ==
    LET book == ClobGetOrderBook(ThickBook)
        out == Synchronize(WideConfig, [t \in Tokens |-> AMMInit(WideConfig)],
                           [EmptySnapshot EXCEPT !.none = {},
                                                 !.balances["Collateral"] = 1200],
                           book, NoArgs.up)
        e == out.expected[1]
    IN  [id |-> 1, side |-> e.side, token |-> e.token, price |-> e.price + 10,
         size |-> e.size]

\* the book the strategy manager gets from the price feed
FeedBook(resp) ==
    IF resp.feed_none
    THEN [none |-> TRUE, has_bids |-> FALSE, bids |-> <<>>, has_asks |-> FALSE, asks |-> <<>>]
    ELSE ClobGetOrderBook(resp)

\* the ids in use anywhere, and the id the venue gives to the next order
UsedIds ==
    {o.id : o \in venue \cup cache.orders \cup refresher.orders \cup tick.book.orders}
NewId == CHOOSE n \in 1..(Cardinality(UsedIds) + 1) :
             n \notin UsedIds /\ \A m \in 1..(n - 1) : m \in UsedIds

InitSys ==
    /\ config = WideConfig
    /\ amm = [t \in Tokens |-> AMMInit(config)]
    /\ args = NoArgs
    /\ ret = NoRet
    /\ healthy = FALSE
    /\ venue \in {{}, {SeedOrder}, {SeedNear}}
    /\ cache = EmptySnapshot
    /\ refresher = IdleRefresher
    /\ tick = IdleTick
    /\ calls = <<>>
    /\ budget = NoBudget

Init ==
    /\ InitSys
    /\ app = RunningApp
    /\ market = [balances |-> VenueBalances, books |-> BookResponses]

\* the refresh worker, while it runs, calls the orders handler
\* (App.get_orders over ClobApi.get_orders)
RefreshFetchOrders ==
    /\ app.worker
    /\ refresher.pc = "idle"
    /\ \E failed \in BOOLEAN :
           /\ failed => ~healthy
           /\ refresher' = [pc |-> "balances", orders |-> ClobGetOrders(venue, failed),
                            failed |-> failed]
    /\ UNCHANGED <<market, healthy, venue, cache, tick, calls, app>>
    /\ UNCHANGED amm_vars

\* the refresh worker calls the balances handler (App.get_balances, which
\* lets a failed request raise) and, on success, stores the snapshot
RefreshFetchBalances ==
    /\ refresher.pc = "balances"
    /\ \/ /\ ~healthy
          /\ cache' = cache
       \/ \E bal \in market.balances :
              cache' = StoreSnapshot(cache, refresher.orders, bal, budget.refreshes)
    /\ refresher' = IdleRefresher
    /\ UNCHANGED <<market, healthy, venue, tick, calls, app>>
    /\ UNCHANGED amm_vars

\* the orders whose placement the venue rejected in a tick's calls
Rejected(log) ==
    {log[i].order : i \in {k \in 1..Len(log) : log[k].kind = "place" /\ ~log[k].ok}}

\* StrategyManager.synchronize up to the first venue call; the tick keeps the
\* snapshot it read and the placements the tick before it saw rejected
TickStart ==
    /\ tick.pc = "idle"
    /\ \E resp \in market.books :
         \E book \in {FeedBook(resp)} :
           \E up \in BookTies(book, config) :
             \E out \in {Synchronize(config, amm, cache, book, up)} :
               /\ resp.failed => ~healthy
               /\ amm' = out.amm
               /\ tick' = [pc |-> NextPhase(out.cancel, out.place), bit |-> 1 - tick.bit,
                           result |-> out.result, book |-> cache,
                           expected |-> out.expected,
                           cancel |-> out.cancel, place |-> out.place,
                           rejected |-> Rejected(calls)]
    /\ calls' = <<>>
    /\ UNCHANGED <<market, healthy, venue, cache, refresher, app>>
    /\ UNCHANGED <<config, args, ret>>

\* an exception out of a venue call ends the tick
Abort(t) == [t EXCEPT !.pc = "idle", !.result = "raised", !.cancel = <<>>, !.place = <<>>]

\* the next cancel call of the tick
TickCancel ==
    /\ tick.pc = "cancel"
    /\ \E ok \in BOOLEAN :
         \E o \in {Head(tick.cancel)} :
           \E r \in {ClobCancelOrder(venue, o.id, ok)} :
               /\ healthy => ok
               /\ venue' = r.venue
               /\ calls' = Append(calls, [kind |-> "cancel", order |-> Ident(o),
                                          id |-> o.id, ok |-> r.result])
               /\ tick' = IF r.raised THEN Abort(tick)
                          ELSE [tick EXCEPT !.cancel = Tail(tick.cancel),
                                            !.pc = NextPhase(Tail(tick.cancel), tick.place)]
    /\ UNCHANGED <<market, healthy, cache, refresher, app>>
    /\ UNCHANGED amm_vars

\* the next place call of the tick (App.place_order over ClobApi.place_order);
\* the venue rejects an order it already holds MaxDup copies of
TickPlace ==
    /\ tick.pc = "place"
    /\ \E ok \in BOOLEAN :
         \E d \in {Head(tick.place)} :
           \E room \in {Cardinality({o \in venue : Ident(o) = d}) < MaxDup} :
             \E r \in {ClobPlaceOrder(venue, d, NewId, ok)} :
               /\ ok => room
               /\ (healthy /\ room) => ok
               /\ venue' = r.venue
               /\ calls' = Append(calls, [kind |-> "place", order |-> d,
                                          id |-> r.id, ok |-> r.id # 0])
               /\ tick' = IF r.raised THEN Abort(tick)
                          ELSE [tick EXCEPT !.place = Tail(tick.place),
                                            !.pc = NextPhase(tick.cancel, Tail(tick.place))]
    /\ UNCHANGED <<market, healthy, cache, refresher, app>>
    /\ UNCHANGED amm_vars

Next ==
    \/ /\ budget.refreshes < MaxRefresh
       /\ budget' = [budget EXCEPT !.refreshes = @ + 1]
       /\ RefreshFetchOrders
    \/ RefreshFetchBalances /\ UNCHANGED budget
    \/ /\ budget.ticks < MaxTicks
       /\ budget' = [budget EXCEPT !.ticks = @ + 1]
       /\ TickStart
    \/ TickCancel /\ UNCHANGED budget
    \/ TickPlace /\ UNCHANGED budget

Spec == Init /\ [][Next]_vars

(***************************************************************************)
(* The running keeper on unchanged market inputs, with a venue that        *)
(* recovers: the refresh worker and the tick are timer-driven (every       *)
(* refresh_frequency / sync_interval seconds), so each of their steps is   *)
(* taken once it stays enabled.                                            *)
(***************************************************************************)
\* the one competitor book and the one balance answer of the unchanged market
LiveBook ==
    BookResp(FALSE, FALSE, FALSE, FALSE, <<Level(390, 6000)>>, <<Level(410, 6000)>>)
LiveBalances == [Collateral |-> 0, A |-> 600, B |-> 0]

InitLive ==
    /\ InitSys
    /\ app = RunningApp
    /\ venue = {SeedOrder}
    /\ market = [balances |-> {LiveBalances},
                 books |-> {LiveBook, BookResp(FALSE, TRUE, FALSE, FALSE, <<>>, <<>>)}]

\* the venue recovers: from now on it answers every request successfully
BecomeHealthy ==
    /\ ~healthy
    /\ healthy' = TRUE
    /\ UNCHANGED <<market, venue, cache, refresher, tick, calls, budget, app>>
    /\ UNCHANGED amm_vars

NextLive ==
    \/ RefreshFetchOrders /\ UNCHANGED budget
    \/ RefreshFetchBalances /\ UNCHANGED budget
    \/ TickStart /\ UNCHANGED budget
    \/ TickCancel /\ UNCHANGED budget
    \/ TickPlace /\ UNCHANGED budget
    \/ BecomeHealthy

SpecLive ==
    /\ InitLive
    /\ [][NextLive]_vars
    /\ WF_vars(RefreshFetchOrders /\ UNCHANGED budget)
    /\ WF_vars(RefreshFetchBalances /\ UNCHANGED budget)
    /\ WF_vars(TickStart /\ UNCHANGED budget)
    /\ WF_vars(TickCancel /\ UNCHANGED budget)
    /\ WF_vars(TickPlace /\ UNCHANGED budget)
    /\ WF_vars(BecomeHealthy)

(***************************************************************************)
(* Properties of the pricing engine.                                       *)
(***************************************************************************)
\* the collateral bound handed to collateral_allocation
TotalCollateral == Min(args.bal["Collateral"], config.max_collateral)

\* C8: every price of a buy ladder built by set_buy_prices lies in
\* [p_min, p_max], whatever the reference price.
C8_BuyPricesInBand ==
    \A t \in Tokens : \A i \in 1..Len(amm[t].buy_prices) :
        /\ amm[t].buy_prices[i] >= config.p_min
        /\ amm[t].buy_prices[i] <= config.p_max

LevelSize(t, i, y) ==
    LET nums == Diff([k \in 1..Len(amm[t].buy_prices) |->
                         BuySizeNum(y, amm[t].p_i, amm[t].buy_prices[k])])
    IN  nums[i] \div BuySizeDen(amm[t].p_i, amm[t].p_l)

\* C10: every order returned by get_expected_orders has size >= min_size,
\* and a BUY order carries exactly the size computed for its level: a level
\* below min_size yields no order, not an order of adjusted size.
C10_SizesAtLeastMin ==
    (ret.op = "get_expected_orders" /\ ~ret.raised) =>
        LET alloc == AllocationFor(config, amm, args.bal)
        IN  \A k \in 1..Len(ret.orders) :
                LET o == ret.orders[k]
                    y == IF o.token = "A" THEN alloc.a ELSE alloc.b
                IN  /\ o.size >= config.min_size
                    /\ o.side = "SELL" => o.size = args.bal[o.token]
                    /\ o.side = "BUY" =>
                           \E i \in 1..Len(amm[o.token].buy_prices) :
                               /\ amm[o.token].buy_prices[i] = o.price
                               /\ LevelSize(o.token, i, y) = o.size

\* C10 witness: a returned order list with a BUY order, while the token
\* balance of A (below min_size) produced no SELL order
C10_Witness ==
    /\ ret.op = "get_expected_orders"
    /\ ~ret.raised
    /\ config.min_size > 0
    /\ args.bal["A"] > 0
    /\ args.bal["A"] < config.min_size
    /\ \E k \in 1..Len(ret.orders) : ret.orders[k].side = "BUY"
    /\ \A k \in 1..Len(ret.orders) : ~(ret.orders[k].side = "SELL" /\ ret.orders[k].token = "A")

(***************************************************************************)
(* Properties of the running keeper.                                       *)
(***************************************************************************)
\* the identities of a set of orders, and the calls of one kind in a log
Idents(orders) == {Ident(o) : o \in orders}
CallsOf(log, kind) == {i \in 1..Len(log) : log[i].kind = kind}

\* a tick has just started (synchronize was entered)
TickStarted == tick'.bit # tick.bit

\* C1: synchronize returns normally on every tick, whatever the competitor
\* order book is (None, a missing bids or asks entry, an empty side) and
\* whatever the cancel and place calls return.
C1_NeverRaises == tick.result # "raised"

\* C2: a tick whose snapshot has a None balance, or Collateral, Token A and
\* Token B all zero, issues no cancel and no place call and leaves the live
\* orders unchanged.
C2_InvalidSnapshotNoCalls ==
    [][(/\ TickStarted
        /\ \/ cache.none # {}
           \/ \A k \in {"Collateral", "A", "B"} : cache.balances[k] = 0)
       => (/\ tick'.pc = "idle"
           /\ tick'.cancel = <<>>
           /\ tick'.place = <<>>
           /\ calls' = <<>>
           /\ venue' = venue)]_vars

\* C2 witness: a tick skipped on an all-zero snapshot that holds a live order
C2_Witness ==
    /\ tick.result = "skipped"
    /\ tick.book.none = {}
    /\ tick.book.orders # {}
    /\ tick.book.orders \subseteq venue
    /\ calls = <<>>

\* C3: a refresh whose open-order fetch failed leaves the stored snapshot's
\* order set as it was before the refresh.
C3_FailedFetchKeepsOrders ==
    [][(refresher.pc = "balances" /\ refresher.failed)
       => cache'.orders = cache.orders]_vars

\* C4: in a tick that reaches the diff, the orders cancelled are exactly the
\* snapshot's orders with no desired order of the same side, token, price
\* and size, and the orders placed are exactly the desired orders with no
\* snapshot order of the same side, token, price and size (calls made and
\* calls still to make, each exactly once).
C4_DiffExact ==
    tick.result = "diff" =>
        LET desired == SeqToSet(tick.expected)
            stale == {o \in tick.book.orders : Ident(o) \notin desired}
            missing == desired \ Idents(tick.book.orders)
        IN  /\ {calls[i].id : i \in CallsOf(calls, "cancel")}
                  \cup {o.id : o \in SeqToSet(tick.cancel)} = {o.id : o \in stale}
            /\ Cardinality(CallsOf(calls, "cancel")) + Len(tick.cancel) = Cardinality(stale)
            /\ {calls[i].order : i \in CallsOf(calls, "place")}
                  \cup SeqToSet(tick.place) = missing
            /\ Cardinality(CallsOf(calls, "place")) + Len(tick.place) = Cardinality(missing)

\* C4 witness: a finished tick that cancelled a live BUY and placed a BUY of
\* the same token and size one tick below it
C4_Witness ==
    /\ tick.result = "diff"
    /\ tick.pc = "idle"
    /\ \E i \in CallsOf(calls, "cancel"), j \in CallsOf(calls, "place") :
           /\ calls[i].order.side = "BUY"
           /\ calls[j].order = [calls[i].order EXCEPT !.price = @ - 10]

\* C5: within a tick no cancel call follows a place call, and a failed call
\* does not end the tick: a finished tick has issued every call of its diff.
C5_CancelsThenPlaces ==
    /\ \A i \in CallsOf(calls, "place"), j \in CallsOf(calls, "cancel") : j < i
    /\ calls # <<>> => tick.result = "diff"
    /\ (tick.result = "diff" /\ tick.pc = "idle") =>
           Len(calls) =
               Cardinality({o \in tick.book.orders : Ident(o) \notin SeqToSet(tick.expected)})
               + Cardinality(SeqToSet(tick.expected) \ Idents(tick.book.orders))

\* C5 witness: a finished tick whose cancel call failed and which went on to
\* place
C5_Witness ==
    /\ tick.pc = "idle"
    /\ \E i \in CallsOf(calls, "cancel"), j \in CallsOf(calls, "place") :
           ~calls[i].ok /\ i < j
    /\ \E i, j \in CallsOf(calls, "place") : ~calls[i].ok /\ i < j

\* C7: the snapshot a tick reads, and the stored snapshot, hold orders and
\* balances of one and the same completed refresh; and a tick can read the
\* snapshot while the refresh worker is waiting for the venue.
C7_SnapshotOfOneRefresh ==
    /\ cache.oref = cache.bref
    /\ tick.book.oref = tick.book.bref
    /\ (refresher.pc = "balances" /\ tick.pc = "idle") => ENABLED TickStart

\* C7 witness: a tick at work on the snapshot of the first refresh while the
\* second refresh has replaced it
C7_Witness ==
    /\ tick.pc # "idle"
    /\ tick.book.oref = 1
    /\ cache.oref = 2
    /\ tick.book.orders # cache.orders

BuysOf(orders, t) ==
    {i \in 1..Len(orders) : orders[i].side = "BUY" /\ orders[i].token = t}

\* C11: when Token A's reference price is in [0, 0.1] or [0.9, 1], end
\* points included, and one of the tokens has no buy order, the list returned
\* by get_expected_orders holds no BUY order of either token.
C11_ExtremeBandSuppressesBuys ==
    (/\ ret.op = "get_expected_orders"
     /\ ~ret.raised
     /\ args.p <= 100 \/ args.p >= 900
     /\ \E t \in Tokens : BuysOf(ret.orders, t) = {})
    => \A t \in Tokens : BuysOf(ret.orders, t) = {}

(***************************************************************************)
(* Construction of the pricing engine: AMMManager.__init__ on candidate    *)
(* configurations, valid or not, and the first pricing call on the engine  *)
(* that was built.                                                         *)
(***************************************************************************)
\* configurations handed to AMMManager.__init__
CandidateConfigs ==
    { [WideConfig EXCEPT !.p_min = a, !.p_max = b, !.spread = s, !.depth = d] :
        a \in {50, 500, 950}, b \in {50, 500, 950}, s \in {10, 30}, d \in {10, 30} }

\* no AMMManager has been built
NoEngine == <<>>

\* AMM.__init__ raises when the spread is not below the depth
AMMInitRaises(cfg) == cfg.spread >= cfg.depth

\* AMMManager.__init__: builds amm_a and amm_b, or raises
AMMManagerInit(cfg) ==
    IF AMMInitRaises(cfg) THEN [raised |-> TRUE, amms |-> NoEngine]
    ELSE [raised |-> FALSE, amms |-> [A |-> AMMInit(cfg), B |-> AMMInit(cfg)]]

InitCtor ==
    /\ config \in CandidateConfigs
    /\ amm = NoEngine
    /\ args \in [p : {100, 400, 500}, bal : {[Collateral |-> 2000, A |-> 600, B |-> 0]},
                  sa : {Fin(10)}, sb : {Fin(10), Inf}, up : {NoArgs.up}]
    /\ ret = NoRet
    /\ market = [balances |-> {}, books |-> {}]
    /\ healthy = FALSE
    /\ venue = {}
    /\ cache = EmptySnapshot
    /\ refresher = IdleRefresher
    /\ tick = IdleTick
    /\ calls = <<>>
    /\ budget = NoBudget
    /\ app = RunningApp

\* the call AMMManager(config)
ConstructCall ==
    /\ ret.op = "none"
    /\ \E r \in {AMMManagerInit(config)} :
           /\ amm' = r.amms
           /\ ret' = [NoRet EXCEPT !.op = "construct", !.raised = r.raised]
    /\ UNCHANGED <<config, args>>
    /\ UNCHANGED sys_vars

\* the first get_expected_orders call on the engine that was built
FirstPricingCall ==
    /\ ret.op = "construct"
    /\ ~ret.raised
    /\ \E r \in {GetExpectedOrders(config, amm, TargetPrices(args.p), args.bal,
                                    args.sa, args.sb, args.up)} :
           /\ amm' = AmmsAfterPrices(config, amm, TargetPrices(args.p), args.sa, args.sb, args.up)
           /\ ret' = [NoRet EXCEPT !.op = "get_expected_orders", !.raised = r.raised,
                                   !.orders = r.orders]
    /\ UNCHANGED <<config, args>>
    /\ UNCHANGED sys_vars

NextCtor == ConstructCall \/ FirstPricingCall

SpecCtor == InitCtor /\ [][NextCtor]_vars

\* C12: constructing the pricing engine from a configuration with
\* spread >= depth or with p_min >= p_max raises, so no engine exists whose
\* configuration violates either condition.
C12_InvalidConfigRejected ==
    (ret.op # "none" /\ (config.spread >= config.depth \/ config.p_min >= config.p_max))
    => (ret.op = "construct" /\ ret.raised /\ amm = NoEngine)

(***************************************************************************)
(* The process: ClobApi.__init__ with its two connectivity checks, the     *)
(* rest of App.__init__, the keeper at work, and App.shutdown.             *)
(***************************************************************************)
\* what ClobClient.get_ok() does: answers OK, answers something else, raises
Answers == {"OK", "other", "raises"}

\* derive_api_key succeeds; it raises PolyApiException and create_api_key
\* succeeds; or create_api_key raises as well
KeyOutcomes == {"derived", "created", "failed"}

\* ClobApi._init_client_L1: the client on an OK answer, sys.exit(1) when the
\* check raises, and the end of the function body (None) on any other answer
InitClientL1(answer) ==
    IF answer = "raises" THEN [exit |-> TRUE, client |-> "None"]
    ELSE IF answer = "OK" THEN [exit |-> FALSE, client |-> "L1"]
    ELSE [exit |-> FALSE, client |-> "None"]

\* ClobApi._init_client_L2: as level 1 (a raising get_address or
\* get_balance_allowance counts as a raising check)
InitClientL2(answer) ==
    IF answer = "raises" THEN [exit |-> TRUE, client |-> "None"]
    ELSE IF answer = "OK" THEN [exit |-> FALSE, client |-> "L2"]
    ELSE [exit |-> FALSE, client |-> "None"]

\* no process yet
NewApp ==
    [stage |-> "new", client |-> "None", L1 |-> "none", L2 |-> "none",
     worker |-> FALSE, cancel_alls |-> 0]

\* ClobApi.__init__: level 1 client, api key, level 2 client.  A None level 1
\* client makes self.client.derive_api_key() raise AttributeError, which the
\* except PolyApiException clause does not catch.
ClobApiInit(a1, key, a2) ==
    LET c1 == InitClientL1(a1)
        c2 == InitClientL2(a2)
    IN  IF c1.exit THEN [NewApp EXCEPT !.stage = "exited", !.L1 = a1]
        ELSE IF c1.client = "None" \/ key = "failed"
             THEN [NewApp EXCEPT !.stage = "raised", !.L1 = a1]
        ELSE IF c2.exit THEN [NewApp EXCEPT !.stage = "exited", !.L1 = a1, !.L2 = a2]
        ELSE [NewApp EXCEPT !.stage = "constructed", !.client = c2.client,
                            !.L1 = a1, !.L2 = a2]

\* ClobApi.cancel_all_orders: one cancel_all request; a failed request is
\* swallowed and answers False
ClobCancelAllOrders(v, failed) ==
    [venue |-> IF failed THEN v ELSE {}, ok |-> ~failed]

\* the order book manager stops its refresh worker
StopRefreshWorkerBad(a) == [a EXCEPT !.stage = "down"]
StopRefreshWorker(a) == [a EXCEPT !.stage = "down", !.worker = FALSE]

InitApp ==
    /\ InitSys
    /\ app = NewApp
    /\ venue = {SeedOrder}
    /\ market = [balances |-> {LiveBalances}, books |-> {LiveBook}]

\* the call ClobApi(host, chain_id, private_key, funder_address)
ClobApiInitCall ==
    /\ app = NewApp
    /\ \E a1 \in Answers, key \in KeyOutcomes, a2 \in Answers :
           app' = ClobApiInit(a1, key, a2)
    /\ UNCHANGED <<market, healthy, venue, cache, refresher, tick, calls, budget>>
    /\ UNCHANGED amm_vars

\* the rest of App.__init__: the handlers are wired and the order book manager
\* is started.  Requests through an absent client all fail, like requests to a
\* venue that does not answer.
AppStart ==
    /\ app.stage = "constructed"
    /\ app' = [app EXCEPT !.stage = "running", !.worker = TRUE]
    /\ healthy' \in (IF app.client = "L2" THEN BOOLEAN ELSE {FALSE})
    /\ UNCHANGED <<market, venue, cache, refresher, tick, calls, budget>>
    /\ UNCHANGED amm_vars

\* App.shutdown, first half: order_book_manager.cancel_all_orders() calls the
\* cancel-all handler
ShutdownCancelAll ==
    /\ app.stage = "running"
    /\ tick.pc = "idle"
    /\ \E failed \in BOOLEAN :
           /\ failed => ~healthy
           /\ healthy => ~failed
           /\ venue' = ClobCancelAllOrders(venue, failed).venue
    /\ app' = [app EXCEPT !.stage = "cancelled", !.cancel_alls = @ + 1]
    /\ UNCHANGED <<market, healthy, cache, refresher, tick, calls, budget>>
    /\ UNCHANGED amm_vars

\* App.shutdown, second half: the refresh worker is stopped, whatever it was
\* doing
ShutdownStopWorker ==
    /\ app.stage = "cancelled"
    /\ app' = StopRefreshWorker(app)
    /\ refresher' = IdleRefresher
    /\ UNCHANGED <<market, healthy, venue, cache, tick, calls, budget>>
    /\ UNCHANGED amm_vars

NextApp ==
    \/ ClobApiInitCall
    \/ AppStart
    \/ /\ budget.refreshes < MaxRefresh
       /\ budget' = [budget EXCEPT !.refreshes = @ + 1]
       /\ RefreshFetchOrders
    \/ RefreshFetchBalances /\ UNCHANGED budget
    \/ /\ app.stage = "running"
       /\ budget.ticks < MaxTicks
       /\ budget' = [budget EXCEPT !.ticks = @ + 1]
       /\ TickStart
    \/ TickCancel /\ UNCHANGED budget
    \/ TickPlace /\ UNCHANGED budget
    \/ ShutdownCancelAll
    \/ ShutdownStopWorker

SpecApp == InitApp /\ [][NextApp]_vars

\* the connectivity checks made so far
FailedCheck == app.L1 \in {"other", "raises"} \/ app.L2 \in {"other", "raises"}

\* C13: constructing ClobApi either yields an object with a connected client
\* or ends the process: whenever the connectivity check of either stage
\* raises or answers something other than OK the process ends, and no ClobApi
\* whose client is absent is handed to the App.
C13_ClientOrExit ==
    /\ FailedCheck => app.stage \in {"exited", "raised"}
    /\ app.stage \in {"constructed", "running", "cancelled", "down"} => app.client = "L2"

MantBits == 8
FracBits == 12

RECURSIVE Pow2(_)
Pow2(n) == IF n = 0 THEN 1 ELSE 2 * Pow2(n - 1)

\* one unit of the real number 1.0
FloatOne == Pow2(FracBits)

Abs(x) == IF x < 0 THEN -x ELSE x

RECURSIVE ExpOf(_, _, _)
\* the exponent of the rational n / d: the least e with n / d < 2^(MantBits + e)
ExpOf(n, d, e) == IF n < Pow2(MantBits) * d * Pow2(e) THEN e ELSE ExpOf(n, d, e + 1)

\* the float nearest to the rational n / d (d > 0), ties to even
FlQ(n, d) ==
    LET a == Abs(n)
        dd == d * Pow2(ExpOf(a, d, 0))
        q == a \div dd
        r == a % dd
        m == IF 2 * r > dd \/ (2 * r = dd /\ q % 2 = 1) THEN q + 1 ELSE q
    IN  (IF n < 0 THEN -1 ELSE 1) * m * (dd \div d)

\* the float nearest to x units
Fl(x) == FlQ(x, 1)

\* the floats among the candidates S
Floats(S) == {x \in S : Fl(x) = x}

\* round(f * 10^d): the d-decimal number nearest to the float f, in 10^-d
NearestDecimal(f, tenpow) == (2 * f * tenpow + FloatOne) \div (2 * FloatOne)

\* str(f) shows exactly two decimals: the shortest decimal that reads back
\* as f has two digits after the point (one digit does not read back as f)
ShowsTwoDecimals(f) ==
    /\ FlQ(NearestDecimal(f, 10) * FloatOne, 10) # f
    /\ FlQ(NearestDecimal(f, 100) * FloatOne, 100) = f

\* math.floor of a float, as an integer
Floor(f) == f \div FloatOne

\* utils.math_round_down(f, 2) on a float f >= 0: f itself when str(f) shows
\* two decimals, else math.floor(f * 100) / 100 with the product and the
\* quotient each rounded to a float
MathRoundDownFloat(f) ==
    IF ShowsTwoDecimals(f) THEN f
    ELSE FlQ(Floor(Fl(f * 100)) * FloatOne, 100)

\* AMM.diff on floats
\* (DiffFloatBad: a faulty diff that subtracts the first element)
DiffFloatBad(arr) ==
    [i \in 1..Len(arr) |-> IF i = 1 THEN arr[i] ELSE Fl(arr[i] - arr[1])]
DiffFloat(arr) ==
    [i \in 1..Len(arr) |-> IF i = 1 THEN arr[i] ELSE Fl(arr[i] - arr[i - 1])]

RECURSIVE RunningSum(_, _)
\* d[0] + ... + d[k] summed left to right in floats
RunningSum(d, k) == IF k = 1 THEN d[1] ELSE Fl(RunningSum(d, k - 1) + d[k])

(***************************************************************************)
(* The float helpers driven directly on drawn arguments.                   *)
(***************************************************************************)
\* longest array handed to diff
MaxArr == 3

\* sizes handed to diff, in units: small, near powers of two, large
DiffValues == Floats({0, 1, 3, 5, 100, 255, 257, 300, 511, 513, 1000, 1025, 2049, 4097, 8191})

\* sizes handed to math_round_down: every float of 0.0 .. 2.0
RoundValues == Floats(0..(2 * FloatOne))

RECURSIVE ArraysOf(_, _)
\* the arrays over S of length 1..n
ArraysOf(S, n) ==
    IF n = 0 THEN {}
    ELSE ArraysOf(S, n - 1) \cup [1..n -> S]

InitFloat ==
    /\ \/ args \in [fn : {"diff"}, arr : ArraysOf(DiffValues, MaxArr)]
       \/ args \in [fn : {"math_round_down"}, arr : [1..1 -> RoundValues]]
    /\ ret = [NoRet EXCEPT !.op = "none"]
    /\ config = WideConfig
    /\ amm = NoEngine
    /\ market = [balances |-> {}, books |-> {}]
    /\ healthy = FALSE
    /\ venue = {}
    /\ cache = EmptySnapshot
    /\ refresher = IdleRefresher
    /\ tick = IdleTick
    /\ calls = <<>>
    /\ budget = NoBudget
    /\ app = NewApp

\* the call AMM.diff(arr)
DiffCall ==
    /\ args.fn = "diff"
    /\ ret.op = "none"
    /\ ret' = [NoRet EXCEPT !.op = "diff", !.orders = DiffFloat(args.arr)]
    /\ UNCHANGED <<config, amm, args>>
    /\ UNCHANGED sys_vars

\* the call math_round_down(f, 2)
MathRoundDownCall ==
    /\ args.fn = "math_round_down"
    /\ ret.op = "none"
    /\ ret' = [NoRet EXCEPT !.op = "math_round_down", !.a = MathRoundDownFloat(args.arr[1])]
    /\ UNCHANGED <<config, amm, args>>
    /\ UNCHANGED sys_vars

NextFloat == DiffCall \/ MathRoundDownCall

SpecFloat == InitFloat /\ [][NextFloat]_vars

\* the largest magnitude among arr[0] .. arr[k]
MaxAbs(arr, k) == CHOOSE m \in {Abs(arr[i]) : i \in 1..k} : \A i \in 1..k : Abs(arr[i]) <= m

\* C15 as stated: for every array of length >= 1 the running sums of
\* diff(arr) equal arr element by element.
C15_RunningSumsExact ==
    ret.op = "diff" =>
        \A k \in 1..Len(args.arr) : RunningSum(ret.orders, k) = args.arr[k]

\* C15 as amended: the running sums of diff(arr) reproduce arr up to float
\* rounding: the sum through index k differs from arr[k] by at most
\* 4 * k * 2^-MantBits * max(|arr[0]|, ..., |arr[k]|), so index 0 is exact.
C15_RunningSumsNear ==
    ret.op = "diff" =>
        \A k \in 1..Len(args.arr) :
            Abs(RunningSum(ret.orders, k) - args.arr[k]) * Pow2(MantBits)
                <= 4 * (k - 1) * MaxAbs(args.arr, k)

\* diff was applied to an array of three elements whose running sums are not
\* all exact
C15_Witness ==
    /\ ret.op = "diff"
    /\ Len(args.arr) = 3
    /\ RunningSum(ret.orders, 3) # args.arr[3]
    /\ RunningSum(ret.orders, 2) = args.arr[2]

\* math_round_down returned a whole number of cents
WholeCents(r) == \E n \in 0..(2 * 100) : FlQ(n * FloatOne, 100) = r

\* C16: for every non-negative f, math_round_down(f, 2) is not greater than
\* f, is not negative, and has at most 2 decimal places.
C16_RoundDownNeverIncreases ==
    ret.op = "math_round_down" =>
        /\ ret.a <= args.arr[1]
        /\ ret.a >= 0
        /\ WholeCents(ret.a)

(***************************************************************************)
(* StrategyManager.synchronize driven directly on drawn competitor books:  *)
(* from the book to the spreads, the ladders and the desired orders.       *)
(***************************************************************************)
\* most levels on a side of a drawn book
MaxBook == 2

BidPrices == {370, 380, 390}
AskPrices == {400, 410, 420}
LevelSizes == {1000, 5000, 6000}

\* the level lists of 1..n levels over the prices P, best level first
\* (desc: bids, descending; else asks, ascending)
SideLists(P, n, desc) ==
    { l \in UNION {[1..k -> [price : P, size : LevelSizes]] : k \in 1..n} :
        \A i \in 1..(Len(l) - 1) :
            IF desc THEN l[i].price > l[i + 1].price ELSE l[i].price < l[i + 1].price }

QuoteBalances ==
    { [Collateral |-> 2000, A |-> 600, B |-> 0],
      [Collateral |-> 0, A |-> 600, B |-> 600] }

InitQuote ==
    /\ config = WideConfig
    /\ amm = [A |-> AMMInit(config), B |-> AMMInit(config)]
    /\ args \in [bids : SideLists(BidPrices, MaxBook, TRUE),
                  asks : SideLists(AskPrices, MaxBook, FALSE),
                  bal : QuoteBalances]
    /\ ret = NoRet
    /\ market = [balances |-> {}, books |-> {}]
    /\ healthy = FALSE
    /\ venue = {}
    /\ cache = EmptySnapshot
    /\ refresher = IdleRefresher
    /\ tick = IdleTick
    /\ calls = <<>>
    /\ budget = NoBudget
    /\ app = RunningApp

\* the book of the price feed with the drawn sides
QuoteBook ==
    [none |-> FALSE, has_bids |-> TRUE, bids |-> args.bids,
     has_asks |-> TRUE, asks |-> args.asks]

\* StrategyManager.synchronize on the drawn book, with no open orders
SynchronizeCall ==
    /\ ret.op = "none"
    /\ \E book \in {QuoteBook} :
         \E up \in BookTies(book, config) :
           \E out \in {Synchronize(config, amm,
                                   [EmptySnapshot EXCEPT !.none = {}, !.balances = args.bal],
                                   book, up)} :
               /\ amm' = out.amm
               /\ ret' = [NoRet EXCEPT !.op = "synchronize",
                                       !.raised = (out.result = "raised"),
                                       !.orders = out.expected]
    /\ UNCHANGED <<config, args>>
    /\ UNCHANGED sys_vars

NextQuote == SynchronizeCall

SpecQuote == InitQuote /\ [][NextQuote]_vars

\* the mid-price of the drawn book
MidPoint == (args.bids[1].price + args.asks[1].price) \div 2

RECURSIVE Notional(_, _)
\* the sum of price * size over the first i levels
Notional(levels, i) ==
    IF i = 0 THEN 0 ELSE Notional(levels, i - 1) + levels[i].price * levels[i].size

\* level i is the first whose running notional is strictly above the cap
FirstOver(levels, i) ==
    /\ Notional(levels, i) > config.max_collateral * 1000
    /\ Notional(levels, i - 1) <= config.max_collateral * 1000

\* the spread s is the distance from the mid-price to the first level of the
\* side at which the running notional exceeds the cap, when there is one
SpreadAtFirstOver(levels, s) ==
    \A i \in 1..Len(levels) :
        FirstOver(levels, i) => (~s.inf /\ s.v = Abs(MidPoint - levels[i].price))

\* C17: the spread derived from a side is the absolute distance between the
\* mid-price and the first level at which the running sum of price * size is
\* strictly greater than the capital cap; Token A quotes with the spread of
\* the bid side and Token B with the spread of the ask side, independently.
C17_SpreadAtCapLevel ==
    ret.op = "synchronize" =>
        /\ SpreadAtFirstOver(args.bids, amm.A.spread)
        /\ SpreadAtFirstOver(args.asks, amm.B.spread)

\* the bid side exceeds the cap at its second level only, the ask side's best
\* level sits exactly at the cap and its second level exceeds it, and the
\* two tokens quote with different spreads
C17_Witness ==
    /\ ret.op = "synchronize"
    /\ Len(args.bids) = 2 /\ FirstOver(args.bids, 2)
    /\ Len(args.asks) = 2 /\ FirstOver(args.asks, 2)
    /\ Notional(args.asks, 1) = config.max_collateral * 1000
    /\ ~amm.A.spread.inf /\ ~amm.B.spread.inf
    /\ amm.A.spread # amm.B.spread

\* no level of the side has a running notional above the cap
NeverOver(levels) ==
    \A i \in 1..Len(levels) : Notional(levels, i) <= config.max_collateral * 1000

\* the first price of a ladder quoted with the configured static spread: the
\* grid price nearest to p_i - spread
StaticFirstPrice(ladder, p_i) ==
    /\ ladder # <<>>
    /\ ladder[1] % GridOf(config.min_tick) = 0
    /\ 2 * Abs(ladder[1] - (p_i - config.spread)) <= GridOf(config.min_tick)

\* C18: when the running notional of a side never exceeds the cap, the
\* derived spread of that token is infinite and its buy ladder of the tick
\* is built with the configured static spread: its first buy price is
\* p_i - spread of the configuration.
C18_InfiniteSpreadFallsBack ==
    ret.op = "synchronize" =>
        /\ NeverOver(args.bids) =>
               (amm.A.spread.inf /\ StaticFirstPrice(amm.A.buy_prices, amm.A.p_i))
        /\ NeverOver(args.asks) =>
               (amm.B.spread.inf /\ StaticFirstPrice(amm.B.buy_prices, amm.B.p_i))

\* the SELL orders of token t in a list of orders
SellsOf(orders, t) ==
    {i \in 1..Len(orders) : orders[i].side = "SELL" /\ orders[i].token = t}

\* the best ask of the competitor book for token t: the best ask of the book
\* for Token A, and the complement of its best bid for Token B
BestAsk(t) ==
    IF t = "A" THEN args.asks[1].price ELSE 1000 - args.bids[1].price

\* C19: the desired orders hold at most one SELL order per token; its price
\* is the current best ask of the competitor book for that token, and its
\* size is the whole balance of the token.
C19_SellAtBestAsk ==
    (ret.op = "synchronize" /\ ~ret.raised) =>
        \A t \in Tokens :
            /\ Cardinality(SellsOf(ret.orders, t)) <= 1
            /\ \A i \in SellsOf(ret.orders, t) :
                   /\ ret.orders[i].price = BestAsk(t)
                   /\ ret.orders[i].size = args.bal[t]

(***************************************************************************)
(* AMM.set_buy_prices driven directly: configurations whose delta is or is *)
(* not a whole multiple of min_tick, drawn reference prices and spreads.   *)
(***************************************************************************)
LadderConfigs ==
    { [WideConfig EXCEPT !.delta = d, !.depth = dp] : d \in {10, 15, 20}, dp \in {30, 50} }

LadderSpreads == {Fin(5), Fin(10), Fin(25), Fin(60), Inf}
LadderPrices == {50, 100, 395, 400, 950}

\* the tie directions of the loop's roundings: free for the first three
\* roundings, down for the rest
StepTieChoices ==
    { [k \in 1..MaxLevels |-> k > MaxLevels - 3 /\ b[MaxLevels - k + 1]] :
        b \in [1..3 -> BOOLEAN] }

InitLadder ==
    /\ config \in LadderConfigs
    /\ amm = [A |-> AMMInit(config), B |-> AMMInit(config)]
    /\ args \in [p : LadderPrices, sa : LadderSpreads, up : BOOLEAN, ups : StepTieChoices]
    /\ ret = NoRet
    /\ market = [balances |-> {}, books |-> {}]
    /\ healthy = FALSE
    /\ venue = {}
    /\ cache = EmptySnapshot
    /\ refresher = IdleRefresher
    /\ tick = IdleTick
    /\ calls = <<>>
    /\ budget = NoBudget
    /\ app = RunningApp

\* amm_a.update_spread(spread); amm_a.set_buy_prices(p_i)
SetBuyPricesCall ==
    /\ ret.op = "none"
    /\ amm' = [amm EXCEPT !.A = SetBuyPrices(config, UpdateSpread(amm.A, args.sa),
                                             args.p, args.up, args.ups)]
    /\ ret' = [NoRet EXCEPT !.op = "set_buy_prices"]
    /\ UNCHANGED <<config, args>>
    /\ UNCHANGED sys_vars

NextLadder == SetBuyPricesCall

SpecLadder == InitLadder /\ [][NextLadder]_vars

\* c is x rounded to the tick grid: a grid price nearest to x
RoundedToGrid(c, x) ==
    /\ c % GridOf(config.min_tick) = 0
    /\ 2 * Abs(c - x) <= GridOf(config.min_tick)

\* the grid prices a rounding of x may give (two when x is a tie)
Roundings(x) ==
    {c \in (x - GridOf(config.min_tick))..(x + GridOf(config.min_tick)) : RoundedToGrid(c, x)}

\* the ladder is empty exactly when p_i - spread, rounded, is below p_l, and
\* a ladder that is not empty starts at p_i - spread rounded
LadderStart(a) ==
    IF a.spread.inf THEN a.buy_prices = <<>>
    ELSE IF a.buy_prices = <<>>
         THEN \E c \in Roundings(a.p_i - a.spread.v) : c < a.p_l
         ELSE /\ RoundedToGrid(a.buy_prices[1], a.p_i - a.spread.v)
              /\ a.buy_prices[1] >= a.p_l

\* strictly descending, no price below p_l
LadderDescends(a) ==
    /\ \A i \in 1..(Len(a.buy_prices) - 1) : a.buy_prices[i] > a.buy_prices[i + 1]
    /\ \A i \in 1..Len(a.buy_prices) : a.buy_prices[i] >= a.p_l

\* C20 as stated: after set_buy_prices(p_i), buy_prices is strictly
\* descending, starts at p_i - spread rounded to the tick grid, consecutive
\* elements differ by delta, it holds every such price >= p_l and none
\* below, and it is empty exactly when p_i - spread (rounded) is below p_l.
C20_LadderStepsByDelta ==
    ret.op = "set_buy_prices" =>
        LET l == amm.A.buy_prices
        IN  /\ LadderStart(amm.A)
            /\ LadderDescends(amm.A)
            /\ \A i \in 1..(Len(l) - 1) : l[i] - l[i + 1] = config.delta
            /\ l # <<>> => l[Len(l)] - config.delta < amm.A.p_l

\* C20 as amended: as stated, except that each further element is the
\* previous one minus delta rounded to the tick grid (a step of exactly
\* delta when delta is a whole multiple of min_tick), and the ladder ends
\* where the next such price is below p_l.
C20_LadderStepsOnGrid ==
    ret.op = "set_buy_prices" =>
        LET l == amm.A.buy_prices
        IN  /\ LadderStart(amm.A)
            /\ LadderDescends(amm.A)
            /\ \A i \in 1..(Len(l) - 1) : RoundedToGrid(l[i + 1], l[i] - config.delta)
            /\ config.delta % config.min_tick = 0 =>
                   \A i \in 1..(Len(l) - 1) : l[i] - l[i + 1] = config.delta
            /\ l # <<>> => \E c \in Roundings(l[Len(l)] - config.delta) : c < amm.A.p_l

\* a ladder of three or more levels whose steps are rounded: delta is not a
\* whole multiple of min_tick
C20_Witness ==
    /\ ret.op = "set_buy_prices"
    /\ config.delta % config.min_tick # 0
    /\ Len(amm.A.buy_prices) >= 3
    /\ amm.A.buy_prices[1] - amm.A.buy_prices[2] # amm.A.buy_prices[2] - amm.A.buy_prices[3]

(***************************************************************************)
(* The ladder loop of AMM.set_buy_prices, one iteration per step, on       *)
(* every delta AMM.__init__ accepts.  While the call runs, ret.a holds the *)
(* local variable price.                                                   *)
(***************************************************************************)
\* AMM.__init__ puts no condition on delta: negative, zero, below half a
\* tick, half a tick, one tick, one and a half ticks
LoopConfigs ==
    { [WideConfig EXCEPT !.delta = d, !.depth = dp] :
        d \in {-10, 0, 4, 5, 10, 15}, dp \in {30, 50} }

InitLoop ==
    /\ config \in LoopConfigs
    /\ amm = [A |-> AMMInit(config), B |-> AMMInit(config)]
    /\ args \in [p : LadderPrices, sa : LadderSpreads, up : BOOLEAN]
    /\ ret = NoRet
    /\ market = [balances |-> {}, books |-> {}]
    /\ healthy = FALSE
    /\ venue = {}
    /\ cache = EmptySnapshot
    /\ refresher = IdleRefresher
    /\ tick = IdleTick
    /\ calls = <<>>
    /\ budget = NoBudget
    /\ app = RunningApp

\* set_buy_prices up to the loop: p_i, p_u, p_l, the empty list
LadderEntry(cfg, a, p_i, up) ==
    LET g == GridOf(cfg.min_tick)
    IN  [a EXCEPT !.p_i = p_i,
                  !.p_u = RoundGrid(Min(p_i + cfg.depth, cfg.p_max) - cfg.min_tick \div 10, g, up),
                  !.p_l = RoundGrid(Max(p_i - cfg.depth, cfg.p_min) + cfg.min_tick \div 10, g, up),
                  !.buy_prices = <<>>]

\* amm_a.update_spread(spread); set_buy_prices(p_i) reaches its loop with the
\* first price (an infinite spread gives a first price below every p_l)
LoopEnter ==
    /\ ret.op = "none"
    /\ \E a \in {LadderEntry(config, UpdateSpread(amm.A, args.sa), args.p, args.up)} :
           /\ amm' = [amm EXCEPT !.A = a]
           /\ ret' = [NoRet EXCEPT !.op = "loop",
                                   !.a = IF a.spread.inf THEN a.p_l - 1
                                         ELSE FirstBuyPrice(config, a, args.p, args.up)]
    /\ UNCHANGED <<config, args>>
    /\ UNCHANGED sys_vars

\* the largest price the loop state tells apart (mills)
MaxLoopPrice == 1000

\* one iteration: price >= p_l, append it, round(price - delta).  The loop
\* has no bound of its own: of a list longer than MaxLevels the state keeps
\* the last MaxLevels prices, of the number of iterations (ret.b) its
\* remainder, and a price above MaxLoopPrice as MaxLoopPrice (the loop
\* condition only asks whether price >= p_l).
LoopStep ==
    /\ ret.op = "loop"
    /\ ret.a >= amm.A.p_l
    /\ amm' = [amm EXCEPT !.A.buy_prices =
                   IF Len(@) < MaxLevels THEN Append(@, ret.a) ELSE Append(Tail(@), ret.a)]
    /\ \E up \in BOOLEAN :
           ret' = [ret EXCEPT
                     !.a = Min(RoundGrid(ret.a - config.delta, GridOf(config.min_tick), up),
                               MaxLoopPrice),
                     !.b = (@ + 1) % (MaxLevels + 1)]
    /\ UNCHANGED <<config, args>>
    /\ UNCHANGED sys_vars

\* the loop condition fails: set_buy_prices returns
LoopExit ==
    /\ ret.op = "loop"
    /\ ret.a < amm.A.p_l
    /\ ret' = [ret EXCEPT !.op = "returned"]
    /\ UNCHANGED <<config, amm, args>>
    /\ UNCHANGED sys_vars

NextLoop == LoopEnter \/ LoopStep \/ LoopExit

\* the interpreter keeps running the call: every step that can be taken is
\* taken
SpecLoop ==
    /\ InitLoop
    /\ [][NextLoop]_vars
    /\ WF_vars(LoopEnter)
    /\ WF_vars(LoopStep)
    /\ WF_vars(LoopExit)

\* C21: for every configuration accepted at construction and every
\* reference price and spread, the ladder loop of set_buy_prices terminates
\* with a finite buy_prices list, also when delta is zero, negative or
\* below half a tick.
C21_LadderLoopTerminates == <>(ret.op = "returned")

(***************************************************************************)
(* Token labels of fetched orders: the venue's market answer, the open     *)
(* orders as the venue lists them, ClobApi._get_order, App.get_orders and  *)
(* Market.get_token_side_by_id.                                            *)
(***************************************************************************)
\* most open orders at the venue
MaxOpen == 2

\* a Python value that is a string of digits or an int; == between a str
\* and an int is False
PyStr(n) == [type |-> "str", v |-> n]
PyInt(n) == [type |-> "int", v |-> n]
PyEq(x, y) == x.type = y.type /\ x.v = y.v

\* the token ids of the market, as numbers
TokenNumbers == [A |-> 11, B |-> 22]

\* the venue's answer to get_market: the two tokens of the market, token ids
\* as they come out of the JSON answer (strings, or numbers)
MarketAnswers ==
    { [condition_id |-> "c",
       tokens |-> <<[token_id |-> f[TokenNumbers.A]], [token_id |-> f[TokenNumbers.B]]>>] :
        f \in {[n \in {TokenNumbers.A, TokenNumbers.B} |-> PyStr(n)],
               [n \in {TokenNumbers.A, TokenNumbers.B} |-> PyInt(n)]} }

\* Market.__init__ over ClobApi.get_market_data (App.__init__)
MarketOf(resp) ==
    LET market_data == [condition_id |-> resp.condition_id,
                        tokenA |-> resp.tokens[1], tokenB |-> resp.tokens[2]]
    IN  [condition_id |-> resp.condition_id, tokenA |-> market_data.tokenA,
         tokenB |-> market_data.tokenB]

\* Market.get_token_id
GetTokenId(mkt, token) ==
    IF token = "A" THEN mkt.tokenA.token_id ELSE mkt.tokenB.token_id

\* Market.get_token_side_by_id
GetTokenSideById(mkt, token_id) ==
    IF PyEq(mkt.tokenA.token_id, token_id) THEN "A" ELSE "B"

\* ClobApi._get_order; int(asset_id) is the int of the same digits
GetOrder(order_dict) ==
    [size |-> order_dict.original_size - order_dict.size_matched,
     price |-> order_dict.price, side |-> order_dict.side,
     token_id |-> PyInt(order_dict.asset_id.v), id |-> order_dict.id]

\* App.get_orders over ClobApi.get_orders
AppGetOrders(mkt, resp) ==
    { [id |-> d.id, side |-> d.side, token |-> GetTokenSideById(mkt, d.token_id),
       price |-> d.price, size |-> d.size] : d \in {GetOrder(o) : o \in resp} }

\* the keeper's open orders as the venue lists them: up to MaxOpen orders on
\* the two tokens of the market, the asset id a string of digits
OpenOrderSets ==
    UNION { { { [id |-> k, side |-> f[k].side, asset_id |-> PyStr(f[k].asset),
                 price |-> 400, original_size |-> 1000,
                 size_matched |-> f[k].matched] : k \in 1..n } :
                f \in [1..n -> [side : {"BUY", "SELL"},
                                asset : {TokenNumbers.A, TokenNumbers.B},
                                matched : {0, 200}]] } : n \in 0..MaxOpen }

InitLabel ==
    /\ config = WideConfig
    /\ amm = [A |-> AMMInit(config), B |-> AMMInit(config)]
    /\ args = NoArgs
    /\ ret = NoRet
    /\ \E resp \in MarketAnswers :
           market = [balances |-> {LiveBalances}, books |-> {}, answer |-> resp]
    /\ healthy = TRUE
    /\ venue \in OpenOrderSets
    /\ cache = EmptySnapshot
    /\ refresher = IdleRefresher
    /\ tick = IdleTick
    /\ calls = <<>>
    /\ budget = NoBudget
    /\ app = RunningApp

\* the refresh worker calls App.get_orders
FetchOrdersCall ==
    /\ app.worker
    /\ refresher.pc = "idle"
    /\ budget.refreshes < 1
    /\ budget' = [budget EXCEPT !.refreshes = @ + 1]
    /\ refresher' = [pc |-> "balances",
                     orders |-> AppGetOrders(MarketOf(market.answer), venue),
                     failed |-> FALSE]
    /\ UNCHANGED <<market, healthy, venue, cache, tick, calls, app>>
    /\ UNCHANGED amm_vars

NextLabel ==
    \/ FetchOrdersCall
    \/ RefreshFetchBalances /\ UNCHANGED budget

SpecLabel == InitLabel /\ [][NextLabel]_vars

\* C22: an open order fetched from the venue whose asset id is the market's
\* token id for token t appears in the snapshot labelled with t: a live
\* Token A order is never labelled Token B.
C22_FetchedOrderKeepsToken ==
    \A r \in venue : \A t \in Tokens :
        r.asset_id.v = GetTokenId(MarketOf(market.answer), t).v =>
            \A o \in refresher.orders \cup cache.orders : o.id = r.id => o.token = t

====
